---- MODULE Spec2Model ----
(***************************************************************************)
(* Tic-tac-toe against a minimax opponent (src/script.js, the text entry   *)
(* point; src/unnamed/part_000 is the graphical twin with the marks        *)
(* renamed).  The human plays "X" (the Minimizer), the computer plays "O"  *)
(* (the Maximizer).                                                        *)
(*                                                                         *)
(* The search is modelled twice.  minimax and makeComputerMove are          *)
(* operators that compute what a call returns; the game loop (Spec) and    *)
(* the direct calls (EvalSpec) use them, one action per callback or call.  *)
(* The search also mutates the one shared board in place and undoes each   *)
(* move after the recursive call returns: that is modelled by an explicit  *)
(* call stack, one frame per active call and one action per step of a call *)
(* (entry, loop head, return into the caller), so that every hypothetical  *)
(* board the search visits is a state (StepSpec, StepEvalSpec).  StepAgrees *)
(* ties the two: every call of the stepwise search returns what the        *)
(* operator computes and leaves the board the operator gives.              *)
(*                                                                         *)
(* The graphical page keeps its own board and is modelled by its two event *)
(* handlers (GuiSpec); PairSpec feeds the same moves to both entry points. *)
(***************************************************************************)
EXTENDS Integers, Sequences, FiniteSets, TLC

VARIABLES
    board,      \* the shared 3x3 array, board[i][j] in {"", "X", "O"}
    stack,      \* call stack of the search, innermost call last
    ret,        \* value returned by the call that returned last
    pc,         \* where the driver is: "prompt", "computer", "done", "crashed"
                \* in the game ("self", "selfdone" in self-play); "idle", "call",
                \* "returned" when the search is called directly
    message,    \* the outcome declared by console.log before read.close(), or ""
    entry,      \* the outermost call in progress or last made: its function,
                \* its arguments and the board as it was when the call was made
    log,        \* the scores minimax returned to the last call of makeComputerMove
    prev,       \* the outermost call made before entry, with its result
    gui         \* the graphical page (part_000): its board, the text of its
                \* message element, whether the cells listen to clicks

vars == <<board, stack, ret, pc, message, entry, log, prev, gui>>

\* The board is 3x3 (the loops of script.js run to i < 3, j < 3).
N == 3
\* Stands for IEEE Infinity: above every score the search can return.
Infinity == 1000

Idx == 0 .. (N - 1)
Marks == {"", "X", "O"}

Row(a, b, c) == (0 :> a @@ 1 :> b @@ 2 :> c)
EmptyBoard == Row(Row("", "", ""), Row("", "", ""), Row("", "", ""))

NoMove == [i |-> -1, j |-> -1]
NoCall == [fn |-> "none"]

\* ---------------------------------------------------------------- queries

checkWinner(b, player) ==
    \/ \E i \in Idx :
          \/ (b[i][0] = player /\ b[i][1] = player /\ b[i][2] = player)
          \/ (b[0][i] = player /\ b[1][i] = player /\ b[2][i] = player)
    \/ (b[0][0] = player /\ b[1][1] = player /\ b[2][2] = player)
    \/ (b[0][2] = player /\ b[1][1] = player /\ b[2][0] = player)

isBoardFull(b) == \A i \in Idx : \A j \in Idx : b[i][j] # ""

\* The nested for loops, flattened: cell p is row p \div 3, column p % 3.
RECURSIVE movesFrom(_, _)
\* movesFrom with the loops exchanged: column by column.
movesFromColumnMajor(b, p) ==
    IF p >= N * N THEN << >>
    ELSE IF b[p % N][p \div N] = ""
         THEN <<[i |-> p % N, j |-> p \div N]>> \o movesFrom(b, p + 1)
         ELSE movesFrom(b, p + 1)

movesFrom(b, p) ==
    IF p >= N * N THEN << >>
    ELSE IF b[p \div N][p % N] = ""
         THEN <<[i |-> p \div N, j |-> p % N]>> \o movesFrom(b, p + 1)
         ELSE movesFrom(b, p + 1)

getAvailableMoves(b) == movesFrom(b, 0)

\* board[move.i][move.j] = mark
SetCell(b, move, mark) == [b EXCEPT ![move.i][move.j] = mark]

MathMax(a, c) == IF a >= c THEN a ELSE c
MathMin(a, c) == IF a <= c THEN a ELSE c

\* ------------------------------------------------- minimax, as a function

\* bestScore = Math.max(score, bestScore) over the scores in loop order.
RECURSIVE FoldMax(_, _, _)
FoldMax(scores, k, bestScore) ==
    IF k > Len(scores) THEN bestScore
            ELSE FoldMax(scores, k + 1, MathMax(scores[k], bestScore))

RECURSIVE FoldMin(_, _, _)
FoldMin(scores, k, bestScore) ==
    IF k > Len(scores) THEN bestScore
            ELSE FoldMin(scores, k + 1, MathMin(scores[k], bestScore))

\* Each recursive call runs on b with one move marked: the call before it has
\* left the board as it found it and the move before it has been undone (C9).
RECURSIVE minimax(_, _, _)

\* minimax with Math.max in both branches.
minimaxBothMax(b, depth, isMaximizing) ==
    IF checkWinner(b, "O") THEN 10 - depth
    ELSE IF checkWinner(b, "X") THEN depth - 10
    ELSE IF isBoardFull(b) THEN 0
    ELSE LET moves == getAvailableMoves(b)
         IN IF isMaximizing
            THEN FoldMax([k \in 1 .. Len(moves) |->
                         minimax(SetCell(b, moves[k], "O"), depth + 1, FALSE)],
                     1, -Infinity)
            ELSE FoldMax([k \in 1 .. Len(moves) |->
                         minimax(SetCell(b, moves[k], "X"), depth + 1, TRUE)],
                     1, -Infinity)

\* minimax without the depth adjustment: 10 and -10 whatever the depth.
minimaxNoDepth(b, depth, isMaximizing) ==
    IF checkWinner(b, "O") THEN 10
    ELSE IF checkWinner(b, "X") THEN -10
    ELSE IF isBoardFull(b) THEN 0
    ELSE LET moves == getAvailableMoves(b)
         IN IF isMaximizing
            THEN FoldMax([k \in 1 .. Len(moves) |->
                         minimax(SetCell(b, moves[k], "O"), depth + 1, FALSE)],
                     1, -Infinity)
            ELSE FoldMin([k \in 1 .. Len(moves) |->
                         minimax(SetCell(b, moves[k], "X"), depth + 1, TRUE)],
                     1, Infinity)

\* minimax with the depth adjustment turned round (10 + depth, -depth - 10).
minimaxPlusDepth(b, depth, isMaximizing) ==
    IF checkWinner(b, "O") THEN 10 + depth
    ELSE IF checkWinner(b, "X") THEN (-depth) - 10
    ELSE IF isBoardFull(b) THEN 0
    ELSE LET moves == getAvailableMoves(b)
         IN IF isMaximizing
            THEN FoldMax([k \in 1 .. Len(moves) |->
                         minimax(SetCell(b, moves[k], "O"), depth + 1, FALSE)],
                     1, -Infinity)
            ELSE FoldMin([k \in 1 .. Len(moves) |->
                         minimax(SetCell(b, moves[k], "X"), depth + 1, TRUE)],
                     1, Infinity)

minimax(b, depth, isMaximizing) ==
    IF checkWinner(b, "O") THEN 10 - depth
    ELSE IF checkWinner(b, "X") THEN depth - 10
    ELSE IF isBoardFull(b) THEN 0
    ELSE LET moves == getAvailableMoves(b)
         IN IF isMaximizing
            THEN FoldMax([k \in 1 .. Len(moves) |->
                         minimax(SetCell(b, moves[k], "O"), depth + 1, FALSE)],
                     1, -Infinity)
            ELSE FoldMin([k \in 1 .. Len(moves) |->
                         minimax(SetCell(b, moves[k], "X"), depth + 1, TRUE)],
                     1, Infinity)

\* ---------------------------------------- makeComputerMove, as a function

\* The scores makeComputerMove gets from minimax, one per move, in loop order.
RECURSIVE ComputerScores(_, _, _)
ComputerScores(b, moves, k) ==
    IF k > Len(moves) THEN << >>
    ELSE <<minimax(SetCell(b, moves[k], "O"), 0, FALSE)>>
             \o ComputerScores(b, moves, k + 1)

\* The loop of makeComputerMove over the scores: bestMove after the last move.
RECURSIVE PickBest(_, _, _, _, _)

\* PickBest with >= for >: among equal scores the last move wins.
RECURSIVE PickBestLast(_, _, _, _, _)
PickBestLast(moves, scores, k, bestScore, bestMove) ==
    IF k > Len(moves) THEN bestMove
    ELSE IF scores[k] >= bestScore
    THEN PickBestLast(moves, scores, k + 1, scores[k], moves[k])
    ELSE PickBestLast(moves, scores, k + 1, bestScore, bestMove)

PickBest(moves, scores, k, bestScore, bestMove) ==
    IF k > Len(moves) THEN bestMove
    ELSE IF scores[k] > bestScore
    THEN PickBest(moves, scores, k + 1, scores[k], moves[k])
    ELSE PickBest(moves, scores, k + 1, bestScore, bestMove)

\* The last line of makeComputerMove.  With no move found bestMove is still
\* {i: -1, j: -1}, board[-1] is undefined and the assignment throws a TypeError.
MarkBest(b, scores, bestMove) ==
    [board |-> IF bestMove = NoMove THEN b ELSE SetCell(b, bestMove, "O"),
     move |-> bestMove,
     scores |-> scores,
     crashed |-> bestMove = NoMove]

\* ChooseAndMark with bestScore starting at 0 instead of -Infinity.
ChooseAndMarkFromZero(b, moves, scores) ==
    MarkBest(b, scores, PickBest(moves, scores, 1, 0, NoMove))

ChooseAndMark(b, moves, scores) ==
    MarkBest(b, scores, PickBest(moves, scores, 1, -Infinity, NoMove))

\* What a call makeComputerMove(b) does: the board it leaves, the move it
\* marked, the scores it compared, whether it threw.  (The scores are bound
\* as a value, so that they are computed once.)
makeComputerMove(b) ==
    LET moves == getAvailableMoves(b)
    IN CHOOSE r \in {ChooseAndMark(b, moves, scores) :
                        scores \in {ComputerScores(b, moves, 1)}} : TRUE

Call(fn, b, depth, isMaximizing) ==
    [fn |-> fn, board |-> b, depth |-> depth, isMaximizing |-> isMaximizing]

\* ------------------------------------------- the graphical page (part_000)

\* The marks of part_000: a star for the human, a rocket for the computer.
Star == "star"
Rocket == "rocket"

RECURSIVE guiMinimax(_, _, _)

\* guiMinimax scoring a line of the star 10 - depth as well.
guiMinimaxSameSign(b, depth, isMaximizing) ==
    IF checkWinner(b, Rocket) THEN 10 - depth
    ELSE IF checkWinner(b, Star) THEN 10 - depth
    ELSE IF isBoardFull(b) THEN 0
    ELSE LET moves == getAvailableMoves(b)
         IN IF isMaximizing
            THEN FoldMax([k \in 1 .. Len(moves) |->
                         guiMinimax(SetCell(b, moves[k], Rocket), depth + 1, FALSE)],
                     1, -Infinity)
            ELSE FoldMin([k \in 1 .. Len(moves) |->
                         guiMinimax(SetCell(b, moves[k], Star), depth + 1, TRUE)],
                     1, Infinity)

guiMinimax(b, depth, isMaximizing) ==
    IF checkWinner(b, Rocket) THEN 10 - depth
    ELSE IF checkWinner(b, Star) THEN depth - 10
    ELSE IF isBoardFull(b) THEN 0
    ELSE LET moves == getAvailableMoves(b)
         IN IF isMaximizing
            THEN FoldMax([k \in 1 .. Len(moves) |->
                         guiMinimax(SetCell(b, moves[k], Rocket), depth + 1, FALSE)],
                     1, -Infinity)
            ELSE FoldMin([k \in 1 .. Len(moves) |->
                         guiMinimax(SetCell(b, moves[k], Star), depth + 1, TRUE)],
                     1, Infinity)

RECURSIVE guiComputerScores(_, _, _)
guiComputerScores(b, moves, k) ==
    IF k > Len(moves) THEN << >>
    ELSE <<guiMinimax(SetCell(b, moves[k], Rocket), 0, FALSE)>>
             \o guiComputerScores(b, moves, k + 1)

guiMarkBest(b, bestMove) ==
    [board |-> IF bestMove = NoMove THEN b ELSE SetCell(b, bestMove, Rocket),
     crashed |-> bestMove = NoMove]

\* makeComputerMove of part_000: the board it leaves, whether it threw.
guiMakeComputerMove(b) ==
    LET moves == getAvailableMoves(b)
    IN CHOOSE r \in {guiMarkBest(b, PickBest(moves, scores, 1, -Infinity, NoMove)) :
                        scores \in {guiComputerScores(b, moves, 1)}} : TRUE

\* The page after createBoard() and enableBoard().  called and threw are kept
\* for the checks only: the board handed to the last call of makeComputerMove
\* in this game (none yet: << >>) and whether a handler has thrown.
GuiStart ==
    [board |-> EmptyBoard, message |-> "", listening |-> TRUE,
     called |-> << >>, threw |-> FALSE]

\* disableBoard() leaving the listeners on the cells.
disableBoardKeepListening(g, text) == [g EXCEPT !.message = text]

\* disableBoard(): the cells stop listening.
disableBoard(g, text) == [g EXCEPT !.message = text, !.listening = FALSE]

\* handleCellClick from makeComputerMove(board) on; r is what that call did.
\* A TypeError in makeComputerMove ends the handler there.
AfterGuiComputerMove(g, b1, r) ==
    LET g1 == [g EXCEPT !.board = r.board, !.called = <<b1>>]
    IN IF r.crashed THEN [g1 EXCEPT !.threw = TRUE]
       ELSE IF checkWinner(r.board, Rocket) THEN disableBoard(g1, "Computer wins!")
       ELSE IF isBoardFull(r.board) THEN disableBoard(g1, "It's a tie!")
       ELSE g1

\* handleCellClick for a click on the cell (row, col): the page it leaves.
handleCellClick(g, row, col) ==
    IF g.board[row][col] # "" THEN g
    ELSE LET b1 == [g.board EXCEPT ![row][col] = Star]
         IN IF checkWinner(b1, Star)
            THEN disableBoard([g EXCEPT !.board = b1], "Player wins!")
            ELSE IF isBoardFull(b1)
            THEN disableBoard([g EXCEPT !.board = b1], "It's a tie!")
            ELSE CHOOSE g2 \in {AfterGuiComputerMove(g, b1, r) :
                                   r \in {guiMakeComputerMove(b1)}} : TRUE

\* resetGame(): a new board, no message, the cells listen again.
resetGame(g) == GuiStart

\* A click on a cell: the handler runs if the cell still listens.
CellClick(row, col) ==
    /\ gui' = IF gui.listening THEN handleCellClick(gui, row, col) ELSE gui
    /\ UNCHANGED <<board, stack, ret, pc, message, entry, log, prev>>

\* A click on the reset button.
ResetClick ==
    /\ gui' = resetGame(gui)
    /\ UNCHANGED <<board, stack, ret, pc, message, entry, log, prev>>

\* ------------------------------------------------------ playGame (text)

\* Margin of out-of-range numbers the human may type on either side of 1..9.
Margin == 1
Positions == (1 - Margin) .. (N * N + Margin)

getPositionIndices(position) ==
    [row |-> (position - 1) \div N, col |-> (position - 1) % N]

\* The second half of the callback: makeComputerMove(board) and the checks
\* after it.  again is where the loop goes on, over where it ends.
ComputerTurn(b1, again, over) ==
    \E r \in {makeComputerMove(b1)} :
        /\ entry' = Call("makeComputerMove", b1, 0, TRUE)
        /\ IF r.crashed
           THEN /\ pc' = "crashed"
                /\ board' = b1
                /\ UNCHANGED <<message, log>>
           ELSE /\ board' = r.board
                /\ log' = r.scores
                /\ IF checkWinner(r.board, "O")
                   THEN message' = "Computer wins!" /\ pc' = over
                   ELSE IF isBoardFull(r.board)
                   THEN message' = "It's a tie!" /\ pc' = over
                   ELSE message' = message /\ pc' = again

\* PlayerTurn without the test for a full board after the human's move.
PlayerTurnNoTieCheck(position, again, over) ==
    /\ IF position < 1 \/ position > 9
       THEN UNCHANGED <<board, pc, message, entry, log>>
       ELSE LET at == getPositionIndices(position)
                b1 == [board EXCEPT ![at.row][at.col] = "X"]
            IN IF board[at.row][at.col] # ""
               THEN UNCHANGED <<board, pc, message, entry, log>>
               ELSE IF checkWinner(b1, "X")
               THEN /\ board' = b1
                    /\ message' = "Player wins!"
                    /\ pc' = over
                    /\ UNCHANGED <<entry, log>>
               ELSE ComputerTurn(b1, again, over)
    /\ UNCHANGED <<stack, ret, prev>>

\* PlayerTurn with the test for a full board before the test for a winner.
PlayerTurnTieFirst(position, again, over) ==
    /\ IF position < 1 \/ position > 9
       THEN UNCHANGED <<board, pc, message, entry, log>>
       ELSE LET at == getPositionIndices(position)
                b1 == [board EXCEPT ![at.row][at.col] = "X"]
            IN IF board[at.row][at.col] # ""
               THEN UNCHANGED <<board, pc, message, entry, log>>
               ELSE IF isBoardFull(b1)
               THEN /\ board' = b1
                    /\ message' = "It's a tie!"
                    /\ pc' = over
                    /\ UNCHANGED <<entry, log>>
               ELSE IF checkWinner(b1, "X")
               THEN /\ board' = b1
                    /\ message' = "Player wins!"
                    /\ pc' = over
                    /\ UNCHANGED <<entry, log>>
               ELSE ComputerTurn(b1, again, over)
    /\ UNCHANGED <<stack, ret, prev>>

\* The callback of read.question for a line that parseInt turns into the
\* number position.  The two "Invalid ..." notices are console output only:
\* the callback asks again and nothing else changes.
PlayerTurn(position, again, over) ==
    /\ IF position < 1 \/ position > 9
       THEN UNCHANGED <<board, pc, message, entry, log>>
       ELSE LET at == getPositionIndices(position)
                b1 == [board EXCEPT ![at.row][at.col] = "X"]
            IN IF board[at.row][at.col] # ""
               THEN UNCHANGED <<board, pc, message, entry, log>>
               ELSE IF checkWinner(b1, "X")
               THEN /\ board' = b1
                    /\ message' = "Player wins!"
                    /\ pc' = over
                    /\ UNCHANGED <<entry, log>>
               ELSE IF isBoardFull(b1)
               THEN /\ board' = b1
                    /\ message' = "It's a tie!"
                    /\ pc' = over
                    /\ UNCHANGED <<entry, log>>
               ELSE ComputerTurn(b1, again, over)
    /\ UNCHANGED <<stack, ret, prev>>

Question(position) ==
    /\ pc = "prompt"
    /\ PlayerTurn(position, "prompt", "done")
    /\ UNCHANGED gui

\* The same callback for a line parseInt turns into NaN: both range tests are
\* false, getPositionIndices gives {NaN, NaN}, board[NaN] is undefined and
\* reading [NaN] of it throws a TypeError nobody catches.
QuestionNaN ==
    /\ pc = "prompt"
    /\ pc' = "crashed"
    /\ UNCHANGED <<board, stack, ret, message, entry, log, prev>>
    /\ UNCHANGED gui

Init ==
    /\ board = EmptyBoard
    /\ stack = << >>
    /\ ret = 0
    /\ pc = "prompt"
    /\ message = ""
    /\ entry = NoCall
    /\ log = << >>
    /\ prev = NoCall
    /\ gui = GuiStart

Next ==
    \/ \E position \in Positions : Question(position)
    \/ QuestionNaN

Spec == Init /\ [][Next]_vars

\* ------------------------------------- the search step by step: call stack

Top == stack[Len(stack)]
Running(fn, at) == stack # << >> /\ Top.fn = fn /\ Top.at = at

\* A call about to run on board b.  saved keeps b as it is at the call, for the
\* comparison with the board the call leaves behind; the program has no such copy.
Frame(fn, b, depth, isMaximizing) ==
    [fn |-> fn, at |-> "enter", depth |-> depth, isMaximizing |-> isMaximizing,
     moves |-> << >>, k |-> 1, bestScore |-> 0, bestMove |-> NoMove, saved |-> b]

SetTop(f) == [stack EXCEPT ![Len(stack)] = f]
Push(f) == Append(stack, f)
\* The innermost call returns: its frame goes, the caller resumes.
Pop ==
    LET rest == SubSeq(stack, 1, Len(stack) - 1)
    IN IF rest = << >> THEN rest
       ELSE [rest EXCEPT ![Len(rest)].at = "resume"]

\* ---------------------------------------------------------------- minimax

\* MinimaxEnter with the depth adjustment turned round (10 + depth, -depth - 10).
MinimaxEnterPlusDepth ==
    /\ Running("minimax", "enter")
    /\ IF checkWinner(board, "O")
       THEN ret' = 10 + Top.depth /\ stack' = Pop
       ELSE IF checkWinner(board, "X")
       THEN ret' = (-Top.depth) - 10 /\ stack' = Pop
       ELSE IF isBoardFull(board)
       THEN ret' = 0 /\ stack' = Pop
       ELSE /\ stack' = SetTop([Top EXCEPT
                   !.at = "loop",
                   !.bestScore = IF Top.isMaximizing THEN -Infinity ELSE Infinity,
                   !.moves = getAvailableMoves(board),
                   !.k = 1])
            /\ ret' = ret
    /\ UNCHANGED <<board, pc, message, entry, log, prev>>
    /\ UNCHANGED gui

\* MinimaxEnter without the two tests for a winner: only a full board ends
\* the search.
MinimaxEnterFullOnly ==
    /\ Running("minimax", "enter")
    /\ IF isBoardFull(board)
       THEN ret' = 0 /\ stack' = Pop
       ELSE /\ stack' = SetTop([Top EXCEPT
                   !.at = "loop",
                   !.bestScore = IF Top.isMaximizing THEN -Infinity ELSE Infinity,
                   !.moves = getAvailableMoves(board),
                   !.k = 1])
            /\ ret' = ret
    /\ UNCHANGED <<board, pc, message, entry, log, prev>>
    /\ UNCHANGED gui

\* Entry of minimax: the terminal checks, else the set-up of the loop.
MinimaxEnter ==
    /\ Running("minimax", "enter")
    /\ IF checkWinner(board, "O")
       THEN ret' = 10 - Top.depth /\ stack' = Pop
       ELSE IF checkWinner(board, "X")
       THEN ret' = Top.depth - 10 /\ stack' = Pop
       ELSE IF isBoardFull(board)
       THEN ret' = 0 /\ stack' = Pop
       ELSE /\ stack' = SetTop([Top EXCEPT
                   !.at = "loop",
                   !.bestScore = IF Top.isMaximizing THEN -Infinity ELSE Infinity,
                   !.moves = getAvailableMoves(board),
                   !.k = 1])
            /\ ret' = ret
    /\ UNCHANGED <<board, pc, message, entry, log, prev>>
    /\ UNCHANGED gui

\* MinimaxLoop marking 'O' in both branches.
MinimaxLoopSameMark ==
    /\ Running("minimax", "loop")
    /\ IF Top.k <= Len(Top.moves)
       THEN /\ board' = SetCell(board, Top.moves[Top.k], "O")
            /\ stack' = Push(Frame("minimax", board', Top.depth + 1, ~Top.isMaximizing))
            /\ ret' = ret
       ELSE /\ ret' = Top.bestScore
            /\ stack' = Pop
            /\ board' = board
    /\ UNCHANGED <<pc, message, entry, log, prev>>
    /\ UNCHANGED gui

\* Head of the for loop: mark the next move and recurse, or return bestScore.
MinimaxLoop ==
    /\ Running("minimax", "loop")
    /\ IF Top.k <= Len(Top.moves)
       THEN /\ board' = SetCell(board, Top.moves[Top.k],
                                IF Top.isMaximizing THEN "O" ELSE "X")
            /\ stack' = Push(Frame("minimax", board', Top.depth + 1, ~Top.isMaximizing))
            /\ ret' = ret
       ELSE /\ ret' = Top.bestScore
            /\ stack' = Pop
            /\ board' = board
    /\ UNCHANGED <<pc, message, entry, log, prev>>
    /\ UNCHANGED gui

\* MinimaxResume without board[i][j] = '': the move stays on the board.
MinimaxResumeNoUndo ==
    /\ Running("minimax", "resume")
    /\ board' = board
    /\ stack' = SetTop([Top EXCEPT
           !.at = "loop",
           !.bestScore = IF Top.isMaximizing
                         THEN MathMax(ret, Top.bestScore)
                         ELSE MathMin(ret, Top.bestScore),
           !.k = Top.k + 1])
    /\ UNCHANGED <<ret, pc, message, entry, log, prev>>
    /\ UNCHANGED gui

\* The recursive call has returned: undo the move, fold the score.
MinimaxResume ==
    /\ Running("minimax", "resume")
    /\ board' = SetCell(board, Top.moves[Top.k], "")
    /\ stack' = SetTop([Top EXCEPT
           !.at = "loop",
           !.bestScore = IF Top.isMaximizing
                         THEN MathMax(ret, Top.bestScore)
                         ELSE MathMin(ret, Top.bestScore),
           !.k = Top.k + 1])
    /\ UNCHANGED <<ret, pc, message, entry, log, prev>>
    /\ UNCHANGED gui

\* ------------------------------------------------------- makeComputerMove

ComputerEnter ==
    /\ Running("makeComputerMove", "enter")
    /\ stack' = SetTop([Top EXCEPT
           !.at = "loop",
           !.bestMove = NoMove,
           !.bestScore = -Infinity,
           !.moves = getAvailableMoves(board),
           !.k = 1])
    /\ log' = << >>
    /\ UNCHANGED <<board, ret, pc, message, entry, prev>>
    /\ UNCHANGED gui

\* Head of the for loop; after the loop the best move is marked for good.
\* With no move found bestMove is still {i: -1, j: -1} and board[-1] is
\* undefined: the assignment throws a TypeError.
ComputerLoop ==
    /\ Running("makeComputerMove", "loop")
    /\ IF Top.k <= Len(Top.moves)
       THEN /\ board' = SetCell(board, Top.moves[Top.k], "O")
            /\ stack' = Push(Frame("minimax", board', 0, FALSE))
            /\ UNCHANGED <<ret, pc>>
       ELSE IF Top.bestMove = NoMove
       THEN /\ pc' = "crashed"
            /\ stack' = << >>
            /\ UNCHANGED <<board, ret>>
       ELSE /\ board' = SetCell(board, Top.bestMove, "O")
            /\ stack' = Pop
            /\ UNCHANGED <<ret, pc>>
    /\ UNCHANGED <<message, entry, log, prev>>
    /\ UNCHANGED gui

ComputerResume ==
    /\ Running("makeComputerMove", "resume")
    /\ board' = SetCell(board, Top.moves[Top.k], "")
    /\ stack' = SetTop([Top EXCEPT
           !.at = "loop",
           !.bestScore = IF ret > Top.bestScore THEN ret ELSE Top.bestScore,
           !.bestMove = IF ret > Top.bestScore THEN Top.moves[Top.k] ELSE Top.bestMove,
           !.k = Top.k + 1])
    /\ log' = Append(log, ret)
    /\ UNCHANGED <<ret, pc, message, entry, prev>>
    /\ UNCHANGED gui

Search ==
    \/ MinimaxEnter
    \/ MinimaxLoop
    \/ MinimaxResume
    \/ ComputerEnter
    \/ ComputerLoop
    \/ ComputerResume

\* ------------------------------------- playGame, the search step by step

\* The callback up to the call of makeComputerMove.
QuestionStep(position) ==
    /\ pc = "prompt"
    /\ stack = << >>
    /\ IF position < 1 \/ position > 9
       THEN UNCHANGED <<board, stack, pc, message, entry>>
       ELSE LET at == getPositionIndices(position)
                b1 == [board EXCEPT ![at.row][at.col] = "X"]
            IN IF board[at.row][at.col] # ""
               THEN UNCHANGED <<board, stack, pc, message, entry>>
               ELSE /\ board' = b1
                    /\ IF checkWinner(b1, "X")
                       THEN /\ message' = "Player wins!"
                            /\ pc' = "done"
                            /\ UNCHANGED <<stack, entry>>
                       ELSE IF isBoardFull(b1)
                       THEN /\ message' = "It's a tie!"
                            /\ pc' = "done"
                            /\ UNCHANGED <<stack, entry>>
                       ELSE /\ stack' = Push(Frame("makeComputerMove", b1, 0, TRUE))
                            /\ entry' = Call("makeComputerMove", b1, 0, TRUE)
                            /\ pc' = "computer"
                            /\ message' = message
    /\ UNCHANGED <<ret, log, prev>>
    /\ UNCHANGED gui

\* The rest of the callback, after makeComputerMove has returned.
AfterComputerMove ==
    /\ pc = "computer"
    /\ stack = << >>
    /\ IF checkWinner(board, "O")
       THEN message' = "Computer wins!" /\ pc' = "done"
       ELSE IF isBoardFull(board)
       THEN message' = "It's a tie!" /\ pc' = "done"
       ELSE message' = message /\ pc' = "prompt"
    /\ UNCHANGED <<board, stack, ret, entry, log, prev>>
    /\ UNCHANGED gui

StepNext ==
    \/ \E position \in Positions : QuestionStep(position)
    \/ QuestionNaN
    \/ AfterComputerMove
    \/ Search

StepSpec == Init /\ [][StepNext]_vars

\* ----------------------------------------------------- calls made directly

Cells == Idx \X Idx
Count(b, mark) == Cardinality({c \in Cells : b[c[1]][c[2]] = mark})
NumEmpty(b) == Count(b, "")

\* Boards with at most MaxEmpty Empty cells are called with; depths up to MaxDepth.
MaxEmpty == 3
MaxDepth == 3

\* [[A,A,''],['','',''],['','','']], the board of the end-to-end scenario.
TwoInRow == Row(Row("O", "O", ""), Row("", "", ""), Row("", "", ""))

\* The boards of alternating play, whoever began.
InputBoards ==
    {b \in [Idx -> [Idx -> Marks]] :
        /\ NumEmpty(b) <= MaxEmpty
        /\ Count(b, "X") - Count(b, "O") \in {-1, 0, 1}}

\* depth counts the moves the search has made: never more than the board has marks.
Depths(b) == {d \in 0 .. MaxDepth : d + NumEmpty(b) <= N * N}

\* A call minimax(board, depth, isMaximizing), from call to return.
CallMinimax(depth, isMaximizing) ==
    /\ pc = "idle"
    /\ depth \in Depths(board)
    /\ entry' = Call("minimax", board, depth, isMaximizing)
    /\ ret' = minimax(board, depth, isMaximizing)
    /\ pc' = "returned"
    /\ UNCHANGED <<board, stack, message, log, prev>>
    /\ UNCHANGED gui

\* A second call on the same board for the same role, at a greater depth;
\* prev keeps the first call and what it returned.
CallMinimaxAgain(depth) ==
    /\ pc = "returned"
    /\ entry.fn = "minimax"
    /\ prev = NoCall
    /\ depth \in Depths(board)
    /\ depth > entry.depth
    /\ prev' = [call |-> entry, ret |-> ret]
    /\ entry' = Call("minimax", board, depth, entry.isMaximizing)
    /\ ret' = minimax(board, depth, entry.isMaximizing)
    /\ UNCHANGED <<board, stack, pc, message, log>>
    /\ UNCHANGED gui

\* A call makeComputerMove(board), from call to return or to the TypeError.
CallComputerMove ==
    /\ pc = "idle"
    /\ \E r \in {makeComputerMove(board)} :
           /\ entry' = Call("makeComputerMove", board, 0, TRUE)
           /\ board' = r.board
           /\ log' = r.scores
           /\ pc' = IF r.crashed THEN "crashed" ELSE "returned"
    /\ UNCHANGED <<stack, ret, message, prev>>
    /\ UNCHANGED gui

EvalInit ==
    /\ \/ board \in InputBoards
       \/ board = TwoInRow
    /\ stack = << >>
    /\ ret = 0
    /\ pc = "idle"
    /\ message = ""
    /\ entry = NoCall
    /\ log = << >>
    /\ prev = NoCall
    /\ gui = GuiStart

EvalNext ==
    \/ \E depth \in 0 .. MaxDepth, isMaximizing \in BOOLEAN :
           CallMinimax(depth, isMaximizing)
    \/ \E depth \in 0 .. MaxDepth : CallMinimaxAgain(depth)
    \/ CallComputerMove

EvalSpec == EvalInit /\ [][EvalNext]_vars

\* The calls at the top of a search, depth 0 and the Maximizer to move, on
\* the same boards and on the empty board.
TopInit ==
    /\ \/ board \in InputBoards
       \/ board \in {TwoInRow, EmptyBoard}
    /\ stack = << >>
    /\ ret = 0
    /\ pc = "idle"
    /\ message = ""
    /\ entry = NoCall
    /\ log = << >>
    /\ prev = NoCall
    /\ gui = GuiStart

TopNext ==
    \/ CallMinimax(0, TRUE)
    \/ CallComputerMove

TopSpec == TopInit /\ [][TopNext]_vars

\* ------------------------------ calls made directly, the search step by step

CallMinimaxStep(depth, isMaximizing) ==
    /\ pc = "idle"
    /\ depth \in Depths(board)
    /\ entry' = Call("minimax", board, depth, isMaximizing)
    /\ stack' = Push(Frame("minimax", board, depth, isMaximizing))
    /\ pc' = "call"
    /\ UNCHANGED <<board, ret, message, log, prev>>
    /\ UNCHANGED gui

CallComputerMoveStep ==
    /\ pc = "idle"
    /\ entry' = Call("makeComputerMove", board, 0, TRUE)
    /\ stack' = Push(Frame("makeComputerMove", board, 0, TRUE))
    /\ pc' = "call"
    /\ UNCHANGED <<board, ret, message, log, prev>>
    /\ UNCHANGED gui

\* The outermost call has returned to its caller.
ReturnStep ==
    /\ pc = "call"
    /\ stack = << >>
    /\ pc' = "returned"
    /\ UNCHANGED <<board, stack, ret, message, entry, log, prev>>
    /\ UNCHANGED gui

StepEvalInit ==
    /\ \/ board \in InputBoards
       \/ board = TwoInRow
    /\ stack = << >>
    /\ ret = 0
    /\ pc = "idle"
    /\ message = ""
    /\ entry = NoCall
    /\ log = << >>
    /\ prev = NoCall
    /\ gui = GuiStart

StepEvalNext ==
    \/ \E depth \in 0 .. MaxDepth, isMaximizing \in BOOLEAN :
           CallMinimaxStep(depth, isMaximizing)
    \/ CallComputerMoveStep
    \/ ReturnStep
    \/ Search

StepEvalSpec == StepEvalInit /\ [][StepEvalNext]_vars

\* Every call of the stepwise search returns what the operators compute.
StepAgrees ==
    /\ pc = "returned" /\ entry.fn = "minimax" =>
           /\ ret = minimax(entry.board, entry.depth, entry.isMaximizing)
           /\ board = entry.board
    /\ pc = "returned" /\ entry.fn = "makeComputerMove" =>
           \E r \in {makeComputerMove(entry.board)} :
               ~r.crashed /\ board = r.board /\ log = r.scores
    /\ pc = "crashed" =>
           makeComputerMove(entry.board).crashed

\* ---------------------------------------------------------------- self-play

\* The human's side played by the rule of makeComputerMove with the roles
\* exchanged: every Empty cell is tried with 'X', scored by minimax with the
\* Maximizer to move, and the first cell of the least score is taken.
RECURSIVE HumanScores(_, _, _)
HumanScores(b, moves, k) ==
    IF k > Len(moves) THEN << >>
    ELSE <<minimax(SetCell(b, moves[k], "X"), 0, TRUE)>>
             \o HumanScores(b, moves, k + 1)

RECURSIVE PickLeast(_, _, _, _, _)
PickLeast(moves, scores, k, bestScore, bestMove) ==
    IF k > Len(moves) THEN bestMove
    ELSE IF scores[k] < bestScore
    THEN PickLeast(moves, scores, k + 1, scores[k], moves[k])
    ELSE PickLeast(moves, scores, k + 1, bestScore, bestMove)

makeHumanMove(b) ==
    LET moves == getAvailableMoves(b)
    IN CHOOSE m \in {PickLeast(moves, scores, 1, Infinity, NoMove) :
                        scores \in {HumanScores(b, moves, 1)}} : TRUE

\* One round of self-play: the position of the rule's move is typed in.
SelfPlayTurn ==
    /\ pc = "self"
    /\ \E move \in {makeHumanMove(board)} :
           PlayerTurn(move.i * N + move.j + 1, "self", "selfdone")
    /\ UNCHANGED gui

\* The game with the human typing (pc = "prompt") or following the rule
\* from the first move on (pc = "self").
SelfPlayInit ==
    /\ board = EmptyBoard
    /\ stack = << >>
    /\ ret = 0
    /\ pc \in {"prompt", "self"}
    /\ message = ""
    /\ entry = NoCall
    /\ log = << >>
    /\ prev = NoCall
    /\ gui = GuiStart

SelfPlayNext ==
    \/ SelfPlayTurn
    \/ \E position \in Positions : Question(position)
    \/ QuestionNaN

SelfPlaySpec == SelfPlayInit /\ [][SelfPlayNext]_vars

\* ------------------------------------------------------ the graphical game

GuiNext ==
    \/ \E row \in Idx, col \in Idx : CellClick(row, col)
    \/ ResetClick

GuiSpec == Init /\ [][GuiNext]_vars

\* ---------------------------------------- the two entry points side by side

\* The human makes the same move in both: types the position of a cell into
\* the text game and clicks that cell on the page.
BothMove(position) ==
    /\ pc = "prompt"
    /\ PlayerTurn(position, "prompt", "done")
    /\ \E at \in {getPositionIndices(position)} :
           gui' = IF gui.listening THEN handleCellClick(gui, at.row, at.col) ELSE gui

PairNext == \E position \in 1 .. N * N : BothMove(position)

PairSpec == Init /\ [][PairNext]_vars

\* ------------------------------------------ one round on a board as given

\* The callback of read.question run with the board as it is given, for the
\* cases no game from the empty board gets to.
TurnOn(position) ==
    /\ pc = "idle"
    /\ PlayerTurn(position, "prompt", "done")
    /\ UNCHANGED gui

TurnNext ==
    \/ \E depth \in 0 .. MaxDepth, isMaximizing \in BOOLEAN :
           CallMinimax(depth, isMaximizing)
    \/ \E position \in Positions : TurnOn(position)

TurnSpec == EvalInit /\ [][TurnNext]_vars

\* ================================================================ claims


\* C1: in the game loop the human never wins: "Player wins!" is never
\* declared, and no board the game rests on between two searches holds a
\* winning line of 'X'.
C1_PlayerNeverWins ==
    /\ message # "Player wins!"
    /\ ~checkWinner(board, "X")

\* A game played to the last cell: five human moves, four replies.
C1_Witness ==
    /\ pc = "done"
    /\ isBoardFull(board)
    /\ Count(board, "X") = 5

\* C2: self-play from the empty board, the human's side following the rule of
\* makeComputerMove with the roles exchanged, always ends in a tie.  While it
\* goes on the board has an Empty cell and no winning line, so there is a
\* move to make; every round fills cells, so there are at most five rounds;
\* and when it is over a tie has been declared on a full board on which
\* neither mark has a winning line.
C2_SelfPlayEndsInTie ==
    /\ [](pc = "self" => /\ ~isBoardFull(board)
                         /\ ~checkWinner(board, "X")
                         /\ ~checkWinner(board, "O"))
    /\ [][pc = "self" => /\ pc' \in {"self", "selfdone"}
                         /\ NumEmpty(board') < NumEmpty(board)]_vars
    /\ [](pc = "selfdone" => /\ message = "It's a tie!"
                             /\ isBoardFull(board)
                             /\ ~checkWinner(board, "X")
                             /\ ~checkWinner(board, "O"))

\* Self-play has ended on a full board.
C2_Witness ==
    /\ pc = "selfdone"
    /\ isBoardFull(board)

\* C3: minimax on the empty board at depth 0 with the Maximizer to move
\* returns exactly 0.
C3_EmptyBoardIsDraw ==
    pc = "returned" /\ entry = Call("minimax", EmptyBoard, 0, TRUE) => ret = 0

\* That call has returned.
C3_Witness ==
    /\ pc = "returned"
    /\ entry = Call("minimax", EmptyBoard, 0, TRUE)
    /\ prev = NoCall

\* The cells makeComputerMove has changed, the cells Empty before the call,
\* and row-major order.
Changed == {c \in Cells : board[c[1]][c[2]] # entry.board[c[1]][c[2]]}
EmptyBefore == {c \in Cells : entry.board[c[1]][c[2]] = ""}
Earlier(c, d) == c[1] < d[1] \/ (c[1] = d[1] /\ c[2] < d[2])
ScoreOf(c) == minimax([entry.board EXCEPT ![c[1]][c[2]] = "O"], 0, FALSE)
ComputerMoved == pc = "returned" /\ entry.fn = "makeComputerMove"

\* C4: makeComputerMove marks the first cell in row-major order among the
\* Empty cells whose score minimax(board with the cell marked, 0, false) is
\* greatest: no Empty cell scores more and every earlier one scores less.  On
\* the empty board that cell is (0, 0).
C4_TieBreak ==
    ComputerMoved =>
        /\ \E chosen \in EmptyBefore :
               /\ Changed = {chosen}
               /\ board[chosen[1]][chosen[2]] = "O"
               /\ \E best \in {ScoreOf(chosen)} :
                      \A c \in EmptyBefore :
                          \E score \in {ScoreOf(c)} :
                              /\ score <= best
                              /\ Earlier(c, chosen) => score < best
        /\ entry.board = EmptyBoard => board[0][0] = "O"

\* makeComputerMove has moved on the empty board.
C4_Witness ==
    /\ ComputerMoved
    /\ entry.board = EmptyBoard
    /\ board[0][0] = "O"

\* Some Empty cell of b would complete a line of 'O'.
CanWinNow(b) ==
    \E c \in Cells : /\ b[c[1]][c[2]] = ""
                      /\ checkWinner([b EXCEPT ![c[1]][c[2]] = "O"], "O")

\* C5: on a board without a winning line on which some Empty cell would
\* complete a line of 'O', makeComputerMove leaves a board with a winning line
\* of 'O'; on [[O,O,''],['','',''],['','','']] it marks (0, 2).
C5_ImmediateWinTaken ==
    ComputerMoved =>
        /\ (/\ ~checkWinner(entry.board, "X")
            /\ ~checkWinner(entry.board, "O")
            /\ CanWinNow(entry.board)) => checkWinner(board, "O")
        /\ entry.board = TwoInRow => Changed = {<<0, 2>>} /\ board[0][2] = "O"

\* makeComputerMove has completed the row of the scenario board.
C5_Witness ==
    /\ ComputerMoved
    /\ entry.board = TwoInRow
    /\ checkWinner(board, "O")

\* The Maximizer can force a line of 'O' within n plies on b, whatever the
\* Minimizer plays; toMove says whether the Maximizer is to move.
RECURSIVE MaxWinsWithin(_, _, _)
MaxWinsWithin(b, toMove, n) ==
    IF checkWinner(b, "O") THEN TRUE
    ELSE IF checkWinner(b, "X") \/ isBoardFull(b) \/ n = 0 THEN FALSE
    ELSE IF toMove
    THEN \E c \in Cells :
             /\ b[c[1]][c[2]] = ""
             /\ MaxWinsWithin([b EXCEPT ![c[1]][c[2]] = "O"], FALSE, n - 1)
    ELSE \A c \in Cells :
             b[c[1]][c[2]] = ""
                 => MaxWinsWithin([b EXCEPT ![c[1]][c[2]] = "X"], TRUE, n - 1)

\* The plies the Maximizer's forced win takes on b, the Maximizer to move.
WinsIn(b, p) == MaxWinsWithin(b, TRUE, p) /\ ~MaxWinsWithin(b, TRUE, p - 1)

\* C6: a board with the Maximizer to move, on which the Maximizer's forced win
\* takes p plies, evaluates to 10 - depth - p.  So of two such boards
\* evaluated at the same depth, the one whose win takes fewer plies scores
\* strictly higher.
C6_FasterWinScoresHigher ==
    /\ pc = "returned"
    /\ entry.fn = "minimax"
    /\ entry.isMaximizing
    /\ ~checkWinner(entry.board, "X")
    /\ ~checkWinner(entry.board, "O")
    => \A p \in 1 .. NumEmpty(entry.board) :
           WinsIn(entry.board, p) => ret = 10 - entry.depth - p

\* A board on which the win takes three plies has been evaluated, at a depth
\* at which a board with a win in one ply scores two more.
C6_Witness ==
    /\ pc = "returned"
    /\ entry.fn = "minimax"
    /\ entry.isMaximizing
    /\ entry.depth = 1
    /\ ~checkWinner(entry.board, "X")
    /\ WinsIn(entry.board, 3)
    /\ ret = 6

\* Two calls on one board that holds a winning line of 'X', the second deeper.
TwoLosses ==
    /\ pc = "returned"
    /\ prev # NoCall
    /\ checkWinner(entry.board, "X")

\* C7 as stated: on a board with a winning line of the Minimizer, the value
\* at depth d1 is strictly greater than the value at depth d2 > d1.
C7_FasterLossScoresHigher ==
    TwoLosses => prev.ret > ret

\* C7 as the code has it: on a board with a winning line of the Minimizer and
\* none of the Maximizer, the value is depth - 10, so the value at depth d1 is
\* strictly less than the value at depth d2 > d1: the slower loss scores higher.
C7_SlowerLossScoresHigher ==
    TwoLosses /\ ~checkWinner(entry.board, "O") =>
        /\ prev.ret = prev.call.depth - 10
        /\ ret = entry.depth - 10
        /\ prev.ret < ret

\* A lost board evaluated at depth 0 and again at depth 3: -10, then -7.
C7_Witness ==
    /\ TwoLosses
    /\ ~checkWinner(entry.board, "O")
    /\ prev.call.depth = 0
    /\ entry.depth = 3
    /\ prev.ret = -10
    /\ ret = -7

\* C8: every value minimax returns, to makeComputerMove or to itself, in a
\* search started by the game loop is an integer in -10 .. 10.
C8_ScoreRange == ret \in -10 .. 10

\* A recursive call three plies down has just returned a loss, 3 - 10.
C8_Witness ==
    /\ pc = "computer"
    /\ Running("minimax", "resume")
    /\ Top.depth = 2
    /\ ret = -7

\* C9: the search reverts its moves.  At the head of every loop of minimax
\* the board is the board the call was entered with, and when the outermost
\* minimax has returned the board is cell for cell the board of the call;
\* makeComputerMove, called on a board with an Empty cell, has changed exactly
\* one cell, from '' to 'O'.
C9_SearchReverts ==
    /\ Running("minimax", "loop") => board = Top.saved
    /\ pc \in {"call", "returned"} /\ stack = << >> /\ entry.fn = "minimax"
           => board = entry.board
    /\ pc \in {"call", "returned"} /\ stack = << >> /\ entry.fn = "makeComputerMove"
           => \E c \in Cells :
                  /\ Changed = {c}
                  /\ entry.board[c[1]][c[2]] = ""
                  /\ board[c[1]][c[2]] = "O"
    /\ pc = "crashed" => isBoardFull(entry.board)

\* makeComputerMove has returned from a board with three Empty cells, every
\* one of them tried and undone on the way.
C9_Witness ==
    /\ pc = "returned"
    /\ entry.fn = "makeComputerMove"
    /\ NumEmpty(entry.board) = 3
    /\ Len(log) = 3
    /\ NumEmpty(board) = 2

\* C10: in every state of the game loop, the hypothetical boards of the
\* search included, the cells hold '', 'X' or 'O' and there are as many
\* 'X' as 'O' or one more.
C10_TurnAlternation ==
    /\ \A c \in Cells : board[c[1]][c[2]] \in Marks
    /\ Count(board, "X") - Count(board, "O") \in {0, 1}

\* A hypothetical board five plies into a search, with equal counts.
C10_Witness ==
    /\ Len(stack) >= 5
    /\ Running("minimax", "enter")
    /\ Count(board, "X") = Count(board, "O")

\* A board the game goes on from: no winning line of either mark (x is the
\* human's, o the computer's) and an Empty cell.
NonTerminal(b, x, o) ==
    /\ ~checkWinner(b, x)
    /\ ~checkWinner(b, o)
    /\ ~isBoardFull(b)

\* C11: in both game loops makeComputerMove is only ever called on a board
\* with no winning line and an Empty cell, and never throws on applying the
\* move {i: -1, j: -1}: every call has compared a score for each Empty cell.
C11_NeverOnTerminalBoard ==
    /\ entry.fn = "makeComputerMove" =>
           /\ NonTerminal(entry.board, "X", "O")
           /\ Len(log) = NumEmpty(entry.board)
    /\ pc # "crashed"
    /\ gui.called # << >> => NonTerminal(gui.called[1], Star, Rocket)
    /\ ~gui.threw

\* Both loops have called makeComputerMove with two Empty cells left, the
\* fullest board it is ever called on.
C11_Witness ==
    /\ entry.fn = "makeComputerMove"
    /\ NumEmpty(entry.board) = 2
    /\ gui.called # << >>
    /\ NumEmpty(gui.called[1]) = 2

\* makeComputerMove has been called on a board with one Empty cell and no
\* winning line, and has returned or thrown.
OneCellLeft ==
    /\ pc \in {"returned", "crashed"}
    /\ entry.fn = "makeComputerMove"
    /\ NumEmpty(entry.board) = 1
    /\ ~checkWinner(entry.board, "X")
    /\ ~checkWinner(entry.board, "O")

\* C12: on a board with exactly one Empty cell and no winning line,
\* makeComputerMove returns with that cell marked 'O' and nothing else
\* changed, whatever the cell scores.
C12_SingleMoveTaken ==
    OneCellLeft =>
        /\ pc = "returned"
        /\ \E c \in EmptyBefore :
               board = [entry.board EXCEPT ![c[1]][c[2]] = "O"]

\* The one cell scored 0, the least a last move of 'O' can score, and was taken.
C12_Witness ==
    /\ OneCellLeft
    /\ pc = "returned"
    /\ log = <<0>>
    /\ isBoardFull(board)

\* C13: the list getAvailableMoves returned to the innermost call of the
\* search holds exactly the coordinates of the Empty cells of the board it
\* was called on, in row-major order, so each once.
C13_LegalMovesRowMajor ==
    stack # << >> /\ Top.at \in {"loop", "resume"} =>
        /\ {<<Top.moves[k].i, Top.moves[k].j>> : k \in 1 .. Len(Top.moves)}
               = {c \in Cells : Top.saved[c[1]][c[2]] = ""}
        /\ \A k \in 1 .. Len(Top.moves) : DOMAIN Top.moves[k] = {"i", "j"}
        /\ \A k \in 1 .. Len(Top.moves) - 1 :
               Earlier(<<Top.moves[k].i, Top.moves[k].j>>,
                       <<Top.moves[k + 1].i, Top.moves[k + 1].j>>)

\* minimax, two plies into a search of the game, has just listed five moves.
C13_Witness ==
    /\ pc = "computer"
    /\ Running("minimax", "loop")
    /\ Top.depth = 2
    /\ Top.k = 1
    /\ Len(Top.moves) = 5
    /\ NumEmpty(board) = 5

\* C14: a line that is rejected has no effect.  The callback places no mark
\* exactly when the line is not a number in 1..9 or names an occupied cell;
\* every such step goes back to the prompt, with no computer move made and
\* nothing declared.
C14_InvalidInputRejected ==
    [][pc = "prompt" /\ board' = board
          => pc' = "prompt" /\ UNCHANGED <<message, entry, log>>]_vars

\* C15: a winner is looked for before a full board.  minimax on a full board
\* returns 10 - depth with a line of 'O', else depth - 10 with a line of 'X',
\* and 0 only without a line; and a round of the game loop that starts on a
\* board without a line and fills it declares "Player wins!" if the human's
\* move completed a line, "Computer wins!" if the reply did, never a tie.
C15_WinBeforeFull ==
    /\ [](pc = "returned" /\ entry.fn = "minimax" /\ isBoardFull(entry.board)
            => /\ ret = IF checkWinner(entry.board, "O") THEN 10 - entry.depth
                        ELSE IF checkWinner(entry.board, "X") THEN entry.depth - 10
                        ELSE 0
               /\ (checkWinner(entry.board, "O") \/ checkWinner(entry.board, "X"))
                      => ret # 0)
    /\ [][/\ pc = "idle"
          /\ ~checkWinner(board, "X")
          /\ ~checkWinner(board, "O")
          /\ isBoardFull(board')
          => /\ checkWinner(board', "X") => message' = "Player wins!"
             /\ checkWinner(board', "O") => message' = "Computer wins!"
             /\ message' = "It's a tie!"
                    => ~checkWinner(board', "X") /\ ~checkWinner(board', "O")]_vars

\* The human's move has filled the last cell and completed a line of 'X':
\* declared a win.
C15_Witness ==
    /\ pc = "done"
    /\ isBoardFull(board)
    /\ Count(board, "X") = 5
    /\ checkWinner(board, "X")
    /\ ~checkWinner(board, "O")
    /\ message = "Player wins!"

\* The Minimizer can force a line of 'X' within n plies on b, whatever the
\* Maximizer plays; toMove says whether the Maximizer is to move.
RECURSIVE MinWinsWithin(_, _, _)
MinWinsWithin(b, toMove, n) ==
    IF checkWinner(b, "X") THEN TRUE
    ELSE IF checkWinner(b, "O") \/ isBoardFull(b) \/ n = 0 THEN FALSE
    ELSE IF toMove
    THEN \A c \in Cells :
             b[c[1]][c[2]] = ""
                 => MinWinsWithin([b EXCEPT ![c[1]][c[2]] = "O"], FALSE, n - 1)
    ELSE \E c \in Cells :
             /\ b[c[1]][c[2]] = ""
             /\ MinWinsWithin([b EXCEPT ![c[1]][c[2]] = "X"], TRUE, n - 1)

\* minimax has returned from a board without a winning line.
ScoredOpenBoard ==
    /\ pc = "returned"
    /\ entry.fn = "minimax"
    /\ ~checkWinner(entry.board, "X")
    /\ ~checkWinner(entry.board, "O")

\* C16: on a board without a winning line, with the role to move as given,
\* minimax is positive exactly if the Maximizer can force a win, negative
\* exactly if the Minimizer can, and 0 exactly if neither can, that is if
\* best play fills the board without a line.
C16_SignIsGameValue ==
    ScoredOpenBoard =>
        /\ ret > 0 <=> MaxWinsWithin(entry.board, entry.isMaximizing,
                                     NumEmpty(entry.board))
        /\ ret < 0 <=> MinWinsWithin(entry.board, entry.isMaximizing,
                                     NumEmpty(entry.board))
        /\ ret = 0 <=> /\ ~MaxWinsWithin(entry.board, entry.isMaximizing,
                                         NumEmpty(entry.board))
                       /\ ~MinWinsWithin(entry.board, entry.isMaximizing,
                                         NumEmpty(entry.board))

\* The Maximizer is to move with three cells left and loses whatever it
\* plays: the score is negative, at a depth that shifts it to -6.
C16_Witness ==
    /\ ScoredOpenBoard
    /\ entry.isMaximizing
    /\ NumEmpty(entry.board) = 3
    /\ entry.depth = 2
    /\ ret = -6

Outcomes == {"Player wins!", "Computer wins!", "It's a tie!"}

\* C17: every game ends with exactly one outcome.  The loop is always either
\* at the prompt, with a cell free for the human and fewer than five human
\* moves made, or over with one of the three outcomes declared; every round
\* that is accepted adds one 'X', so the fifth accepted move at the latest
\* ends the game; and once an outcome is declared, the outcome and the board
\* stay as they are.
C17_GameEndsWithOneOutcome ==
    /\ [](\/ /\ pc = "prompt"
             /\ message = ""
             /\ ~isBoardFull(board)
             /\ Count(board, "X") < 5
          \/ /\ pc = "done"
             /\ message \in Outcomes
             /\ Count(board, "X") <= 5)
    /\ [][board' # board => Count(board', "X") = Count(board, "X") + 1]_vars
    /\ [][message # "" => message' = message /\ board' = board]_vars

\* C18: no play past a win.  No board of the game or of the search holds a
\* winning line of both marks, and every step that puts a mark into an Empty
\* cell (the human's move, a move tried by makeComputerMove or minimax, the
\* move makeComputerMove settles on) starts from a board without a line.
C18_NoPlayPastWin ==
    /\ [](~(checkWinner(board, "X") /\ checkWinner(board, "O")))
    /\ [][(\E c \in Cells : board[c[1]][c[2]] = "" /\ board'[c[1]][c[2]] # "")
             => ~checkWinner(board, "X") /\ ~checkWinner(board, "O")]_vars

\* The search has reached a hypothetical board with a line of 'X' and is
\* about to return from it without placing a mark.
C18_Witness ==
    /\ pc = "computer"
    /\ Running("minimax", "enter")
    /\ checkWinner(board, "X")
    /\ ~isBoardFull(board)

\* C19: the graphical game, its end and its restart.  While an outcome is
\* shown the cells do not listen, and a step then either leaves the page as
\* it is (a click) or is the reset; a click on reset yields the empty board,
\* no message and listening cells, and the first mark on an empty board is
\* the human's star; a click on an occupied cell changes nothing.
C19_EndAndRestart ==
    /\ [](gui.message # "" => ~gui.listening)
    /\ [][gui.message # "" => gui' = gui \/ gui' = GuiStart]_vars
    /\ [][\A row \in Idx, col \in Idx :
             gui.message # "" /\ CellClick(row, col) => gui'.board = gui.board]_vars
    /\ [][ResetClick => /\ gui'.board = EmptyBoard
                        /\ gui'.message = ""
                        /\ gui'.listening]_vars
    /\ [][gui.board = EmptyBoard /\ gui'.board # EmptyBoard
             => Count(gui'.board, Star) = 1 /\ Count(gui'.board, Rocket) <= 1]_vars
    /\ [][\A row \in Idx, col \in Idx :
             gui.board[row][col] # "" /\ CellClick(row, col) => gui' = gui]_vars

\* The computer has won on the page with a cell still Empty: a click on it
\* would be a move were the cells still listening.
C19_Witness ==
    /\ gui.message = "Computer wins!"
    /\ ~isBoardFull(gui.board)
    /\ ~gui.listening

\* The board of the page read in the marks of the text game.
InTextMarks(b) ==
    [i \in Idx |-> [j \in Idx |->
        IF b[i][j] = Star THEN "X" ELSE IF b[i][j] = Rocket THEN "O" ELSE ""]]

\* C20: the two entry points play the same game.  Given the same moves of the
\* human from the empty board, the board of the page is at every step the
\* board of the text game with the star for 'X' and the rocket for 'O', both
\* show the same outcome, and one is over exactly when the other is.
C20_SameGame ==
    /\ InTextMarks(gui.board) = board
    /\ gui.message = message
    /\ pc = "done" <=> ~gui.listening
    /\ pc \in {"prompt", "done"}
    /\ ~gui.threw

\* Both have played a game to its end and declared it.
C20_Witness ==
    /\ pc = "done"
    /\ message = "Computer wins!"
    /\ gui.message = "Computer wins!"
    /\ checkWinner(gui.board, Rocket)
    /\ Count(board, "X") >= 3

====
